---- MODULE Spec2Model ----
(***************************************************************************)
(* CarBuddy: the maintenance-status evaluator                              *)
(* (AutonomousMaintenanceAgent._calculate_service_status) and the          *)
(* recommendation aggregator (MaintenanceAgent.analyze_maintenance_needs). *)
(*                                                                         *)
(* Time is counted in hours since an arbitrary epoch, so that the whole-   *)
(* day truncation of timedelta.days is visible.  A float is modelled by    *)
(* the exact rational [num, den] (den > 0); at every threshold the code    *)
(* compares against (x > 0.8 * interval, days / 30 - interval > 0,         *)
(* days / 30 >= interval) the IEEE-754 result and the exact result agree   *)
(* for whole days and whole miles.  datetime.now() and datetime.utcnow()   *)
(* both read the one system clock `now` (a server running in UTC).         *)
(***************************************************************************)
EXTENDS Integers, Sequences, FiniteSets, TLC

VARIABLES
    now,        \* the system wall clock, in hours since the epoch
    last_call,  \* the latest evaluator call: arguments, clock read, result
    prev_call,  \* the evaluator call before it
    analysis,   \* the latest aggregator call: arguments and returned dict
    fn_call,    \* the latest call of a helper or service function
    store,      \* the agents' tables and the stored vehicles and histories
    daily,      \* the run of autonomous_daily_check
    tasks       \* the Celery tasks: queued messages and finished executions

vars == <<now, last_call, prev_call, analysis, fn_call, store, daily, tasks>>

\* the state outside the evaluator and the aggregator
restVars == <<fn_call, store, daily, tasks>>

----------------------------------------------------------------------------
(* Bounds of the model *)

\* how far around each threshold the inputs are drawn
MaxSlack == 1

\* the longest maintenance history handed to the aggregator
MaxHistory == 2

----------------------------------------------------------------------------
(* Python values *)

\* Optional[...]: the absent value
None == [none |-> TRUE]

\* {} : the empty dict
EmptyDict == [k \in {} |-> 0]

\* dict.get(key, default)
Get(d, key, default) == IF key \in DOMAIN d THEN d[key] ELSE default

\* timedelta.days: whole days, rounded towards minus infinity
HoursPerDay == 24

\* "days_since / 30": the fixed 30-day month
DaysPerMonth == 30

Rat(n, d) == [num |-> n, den |-> d]
IntRat(i) == Rat(i, 1)
RatGT(a, b) == a.num * b.den > b.num * a.den
RatGE(a, b) == a.num * b.den >= b.num * a.den
RatSub(a, b) == Rat(a.num * b.den - b.num * a.den, a.den * b.den)
RatMul(a, b) == Rat(a.num * b.num, a.den * b.den)

\* the float literal 0.8
ZeroPointEight == Rat(4, 5)

\* nothing has been called, stored or run outside the evaluator and the
\* aggregator
RestIdle ==
    fn_call = None /\ store = None /\ daily = None /\ tasks = None

\* the clamp left out
Max0_NoClamp(x) == x

\* max(0, x) on an int: x when x > 0, else the first argument
Max0(x) == IF x > 0 THEN x ELSE 0

\* int(x) on a float: truncation towards zero
IntOf(x) ==
    IF x.num >= 0 THEN x.num \div x.den ELSE 0 - ((0 - x.num) \div x.den)

\* max(0, x) on a float
RatMax0(x) == IF RatGT(x, IntRat(0)) THEN x ELSE IntRat(0)

\* (a - b).days for two datetimes
TimedeltaDays(a, b) == (a - b) \div HoursPerDay

----------------------------------------------------------------------------
(* The models (app/models/user.py) *)

Car(id, mileage) == [id |-> id, current_mileage |-> mileage]

MaintenanceRecord(st, date, mileage) ==
    [service_type |-> st, date_performed |-> date, mileage_at_service |-> mileage]

----------------------------------------------------------------------------
(* AutonomousMaintenanceAgent *)

\* self.maintenance_rules, the agent's knowledge base
maintenance_rules ==
    [oil_change |->
        [mileage_interval |-> 5000, time_interval_months |-> 6,
         priority |-> 10, safety_critical |-> TRUE],
     brake_inspection |->
        [mileage_interval |-> 12000, time_interval_months |-> 12,
         priority |-> 9, safety_critical |-> TRUE],
     tire_rotation |->
        [mileage_interval |-> 7500, time_interval_months |-> 6,
         priority |-> 6, safety_critical |-> FALSE]]

\* datetime.now()
DatetimeNow == now

\* rules = self.maintenance_rules.get(service_type, {})
RulesFor(service_type) == Get(maintenance_rules, service_type, EmptyDict)

\* rules.get("mileage_interval", 10000)
MileInterval(rules) == Get(rules, "mileage_interval", 10000)

\* a wrong default for a missing time interval
TimeInterval_DefaultSix(rules) == Get(rules, "time_interval_months", 6)

\* rules.get("time_interval_months", 12)
TimeInterval(rules) == Get(rules, "time_interval_months", 12)

\* a car that has not been driven yet is reported current
NoRecordStatus_ZeroMileageCurrent(car, service_type, rules) ==
    [status |-> IF car.current_mileage > 0 THEN "overdue" ELSE "current",
     reason |-> "No record of " \o service_type,
     miles_overdue |-> car.current_mileage,
     priority |-> Get(rules, "priority", 5)]

\* no overdue mileage is reported without a record
NoRecordStatus_ZeroOverdue(car, service_type, rules) ==
    [status |-> "overdue",
     reason |-> "No record of " \o service_type,
     miles_overdue |-> 0,
     priority |-> Get(rules, "priority", 5)]

\* the dict returned when there is no last service
NoRecordStatus(car, service_type, rules) ==
    [status |-> "overdue",
     reason |-> "No record of " \o service_type,
     miles_overdue |-> car.current_mileage,
     priority |-> Get(rules, "priority", 5)]

\* the subtraction the wrong way round
MilesSince_Swapped(car, last_service) ==
    last_service.mileage_at_service - car.current_mileage

\* miles_since = car.current_mileage - last_service.mileage_at_service
MilesSince(car, last_service) ==
    car.current_mileage - last_service.mileage_at_service

\* a started day counted as a whole one
MonthsSince_StartedDays(clock, last_service) ==
    Rat(0 - TimedeltaDays(last_service.date_performed, clock), DaysPerMonth)

\* months_since = (clock - last_service.date_performed).days / 30
MonthsSince(clock, last_service) ==
    Rat(TimedeltaDays(clock, last_service.date_performed), DaysPerMonth)

\* the interval counted from the odometer's zero: the sign is lost
OverdueMiles_Swapped(miles_since, mile_interval) == mile_interval - miles_since

\* overdue_miles = miles_since - mile_interval
OverdueMiles(miles_since, mile_interval) == miles_since - mile_interval

\* overdue_months = months_since - time_interval
OverdueMonths(months_since, time_interval) ==
    RatSub(months_since, IntRat(time_interval))

\* if overdue_miles > 0 or overdue_months > 0
IsOverdue(overdue_miles, overdue_months) ==
    overdue_miles > 0 \/ RatGT(overdue_months, IntRat(0))

\* the due_soon thresholds compared with >=
IsDueSoon_NonStrict(miles_since, months_since, mile_interval, time_interval) ==
    \/ RatGE(IntRat(miles_since), RatMul(IntRat(mile_interval), ZeroPointEight))
    \/ RatGE(months_since, RatMul(IntRat(time_interval), ZeroPointEight))

\* elif miles_since > (mile_interval * 0.8) or months_since > (time_interval * 0.8)
IsDueSoon(miles_since, months_since, mile_interval, time_interval) ==
    \/ RatGT(IntRat(miles_since), RatMul(IntRat(mile_interval), ZeroPointEight))
    \/ RatGT(months_since, RatMul(IntRat(time_interval), ZeroPointEight))

\* the body of _calculate_service_status, with the clock value it reads
ServiceStatusAt(car, last_service, service_type, clock) ==
    LET rules == RulesFor(service_type)
    IN  IF last_service = None
        THEN NoRecordStatus(car, service_type, rules)
        ELSE
          LET miles_since == MilesSince(car, last_service)
              months_since == MonthsSince(clock, last_service)
              mile_interval == MileInterval(rules)
              time_interval == TimeInterval(rules)
              overdue_miles == OverdueMiles(miles_since, mile_interval)
              overdue_months == OverdueMonths(months_since, time_interval)
              status ==
                IF IsOverdue(overdue_miles, overdue_months)
                THEN "overdue"
                ELSE IF IsDueSoon(miles_since, months_since,
                                  mile_interval, time_interval)
                     THEN "due_soon"
                     ELSE "current"
          IN  [status |-> status,
               miles_since |-> miles_since,
               months_since |-> months_since,
               overdue_miles |-> Max0(overdue_miles),
               overdue_months |-> RatMax0(overdue_months),
               priority |-> Get(rules, "priority", 5)]

\* _calculate_service_status(car, last_service, service_type): reads the clock
calculate_service_status(car, last_service, service_type) ==
    ServiceStatusAt(car, last_service, service_type, DatetimeNow)

----------------------------------------------------------------------------
(* MaintenanceAgent *)

\* self.maintenance_intervals (miles), and its keys in insertion order
maintenance_intervals ==
    [oil_change |-> 5000, tire_rotation |-> 7500, brake_inspection |-> 12000,
     air_filter |-> 15000, transmission_service |-> 30000]

maintenance_intervals_keys ==
    <<"oil_change", "tire_rotation", "brake_inspection",
      "air_filter", "transmission_service">>

\* self.time_intervals (months)
time_intervals ==
    [oil_change |-> 6, brake_inspection |-> 12, air_filter |-> 12]

\* datetime.utcnow()
DatetimeUtcnow == now

\* the last element of the list, whatever its date
MaxByDate_LastListed(services) == services[Len(services)]

\* max(services, key=lambda x: x.date_performed): the first of the latest
MaxByDate(services) ==
    services[CHOOSE i \in 1..Len(services) :
               /\ \A j \in 1..Len(services) :
                    services[j].date_performed <= services[i].date_performed
               /\ \A j \in 1..(i - 1) :
                    services[j].date_performed < services[i].date_performed]

\* AutonomousMaintenanceAgent._find_last_service
find_last_service(maintenance_history, service_type) ==
    LET Matches(record) == record.service_type = service_type
        services == SelectSeq(maintenance_history, Matches)
    IN  IF services # <<>> THEN MaxByDate(services) ELSE None

\* MaintenanceAgent._get_last_service
get_last_service(maintenance_history, service_type) ==
    LET Matches(record) == record.service_type = service_type
        services == SelectSeq(maintenance_history, Matches)
    IN  IF services # <<>> THEN MaxByDate(services) ELSE None

\* a priority that grows by one when the service was never performed
calculate_priority_Escalating(service_type, car, last_service) ==
    LET priority_map ==
          [oil_change |-> 10, brake_inspection |-> 9, tire_rotation |-> 5,
           air_filter |-> 4, transmission_service |-> 7]
        base == Get(priority_map, service_type, 5)
    IN  IF last_service = None /\ base < 10 THEN base + 1 ELSE base

\* MaintenanceAgent._calculate_priority
calculate_priority(service_type, car, last_service) ==
    LET priority_map ==
          [oil_change |-> 10, brake_inspection |-> 9, tire_rotation |-> 5,
           air_filter |-> 4, transmission_service |-> 7]
    IN  Get(priority_map, service_type, 5)

\* a cost estimate whose default range is written upside down
estimate_cost_DefaultSwapped(service_type, car) ==
    LET CostRange(lo, hi) == [min |-> lo, max |-> hi]
        cost_estimates ==
          [oil_change |-> CostRange(30, 80),
           brake_inspection |-> CostRange(100, 300),
           tire_rotation |-> CostRange(20, 50),
           air_filter |-> CostRange(15, 40),
           transmission_service |-> CostRange(150, 400)]
    IN  Get(cost_estimates, service_type, CostRange(200, 50))

\* MaintenanceAgent._estimate_cost
estimate_cost(service_type, car) ==
    LET CostRange(lo, hi) == [min |-> lo, max |-> hi]
        cost_estimates ==
          [oil_change |-> CostRange(30, 80),
           brake_inspection |-> CostRange(100, 300),
           tire_rotation |-> CostRange(20, 50),
           air_filter |-> CostRange(15, 40),
           transmission_service |-> CostRange(150, 400)]
    IN  Get(cost_estimates, service_type, CostRange(50, 200))

\* the mileage test compared with >
DueByMiles_Strict(miles_since_service, mile_interval) ==
    miles_since_service > mile_interval

\* if miles_since_service >= mile_interval
DueByMiles(miles_since_service, mile_interval) ==
    miles_since_service >= mile_interval

\* elif service_type in self.time_intervals and
\*      months_since_service >= self.time_intervals[service_type]
DueByTime(service_type, months_since_service) ==
    /\ service_type \in DOMAIN time_intervals
    /\ RatGE(months_since_service, IntRat(time_intervals[service_type]))

\* one pass of the loop over maintenance_intervals: the recommendations
\* appended for service_type (none or one)
RecommendationsFor(car, maintenance_history, service_type, current_date) ==
    LET mile_interval == maintenance_intervals[service_type]
        last_service == get_last_service(maintenance_history, service_type)
        Recommendation(reason) ==
          [service_type |-> service_type,
           reason |-> reason,
           priority |-> calculate_priority(service_type, car, last_service),
           estimated_cost |-> estimate_cost(service_type, car)]
    IN  IF last_service # None
        THEN LET miles_since_service ==
                   car.current_mileage - last_service.mileage_at_service
                 months_since_service ==
                   Rat(TimedeltaDays(current_date, last_service.date_performed),
                       DaysPerMonth)
             IN  IF DueByMiles(miles_since_service, mile_interval)
                 THEN <<Recommendation(ToString(miles_since_service)
                          \o " miles since last " \o service_type)>>
                 ELSE IF DueByTime(service_type, months_since_service)
                      THEN <<Recommendation(ToString(IntOf(months_since_service))
                               \o " months since last " \o service_type)>>
                      ELSE <<>>
        ELSE <<Recommendation("No record of " \o service_type)>>

\* sorted(recommendations, key=lambda x: x["priority"]): without reverse=True
RECURSIVE SortedByPriorityAsc(_)
SortedByPriorityAsc(recommendations) ==
    IF recommendations = <<>> THEN <<>>
    ELSE LET n == Len(recommendations)
             x == recommendations[n]
             rest == SortedByPriorityAsc(SubSeq(recommendations, 1, n - 1))
             Before(y) == y.priority <= x.priority
             After(y) == y.priority > x.priority
         IN  SelectSeq(rest, Before) \o <<x>> \o SelectSeq(rest, After)

\* sorted(recommendations, key=lambda x: x["priority"])[::-1]: the ascending
\* list reversed, which reverses equal priorities as well
SortedAscThenReversed(recommendations) ==
    LET asc == SortedByPriorityAsc(recommendations)
    IN  [i \in 1..Len(asc) |-> asc[Len(asc) + 1 - i]]

\* sorted(recommendations, key=lambda x: x["priority"], reverse=True):
\* stable, so equal priorities keep their order
RECURSIVE SortedByPriorityDesc(_)
SortedByPriorityDesc(recommendations) ==
    IF recommendations = <<>> THEN <<>>
    ELSE LET n == Len(recommendations)
             x == recommendations[n]
             rest == SortedByPriorityDesc(SubSeq(recommendations, 1, n - 1))
             Before(y) == y.priority >= x.priority
             After(y) == y.priority < x.priority
         IN  SelectSeq(rest, Before) \o <<x>> \o SelectSeq(rest, After)

\* the recommendations list built by the loop, before it is sorted
RECURSIVE CollectRecommendations(_, _, _, _)
CollectRecommendations(car, maintenance_history, keys, current_date) ==
    IF keys = <<>> THEN <<>>
    ELSE RecommendationsFor(car, maintenance_history, Head(keys), current_date)
           \o CollectRecommendations(car, maintenance_history, Tail(keys),
                                     current_date)

\* analyze_maintenance_needs(car, maintenance_history)
analyze_maintenance_needs(car, maintenance_history) ==
    LET current_date == DatetimeUtcnow
        recommendations ==
          CollectRecommendations(car, maintenance_history,
                                 maintenance_intervals_keys, current_date)
    IN  [car_id |-> car.id,
         analysis_date |-> current_date,
         recommendations |-> SortedByPriorityDesc(recommendations)]

----------------------------------------------------------------------------
(* The inputs the evaluator is applied to *)

\* the service types of both agents' tables; the last two have no entry in
\* maintenance_rules
ServiceTypes ==
    {"oil_change", "brake_inspection", "tire_rotation",
     "air_filter", "transmission_service"}

\* date_performed of the records: day 2, and one hour later
RecordDates == {2 * HoursPerDay, 2 * HoursPerDay + 1}

\* mileage_at_service of the records
RecordMileages == {10000}

Slack == (0 - MaxSlack) .. MaxSlack

\* whole days between the first record date and the clock: around each
\* 0.8 * interval and each interval of 6 and 12 months, and 11 months
DayOffsets ==
    {0, 330} \cup
    {(4 * ti * DaysPerMonth) \div 5 + d : ti \in {6, 12}, d \in Slack} \cup
    {ti * DaysPerMonth + d : ti \in {6, 12}, d \in Slack}

\* the clock values: hour 0 (before every record date) and the day offsets
NowPoints == {0} \cup {(2 + d) * HoursPerDay : d \in DayOffsets}

\* current_mileage of the car: below the record's mileage, the spec's
\* examples, and around 0.8 * interval and the interval of the service type
EvalMileages(service_type) ==
    LET mi == MileInterval(RulesFor(service_type))
    IN  {0, 12000, 14000, 15500} \cup
        {10000 + (4 * mi) \div 5 + d : d \in Slack} \cup
        {10000 + mi + d : d \in Slack}

\* last_service: None, or a record of the service type
LastServices(service_type) ==
    {None} \cup
    {MaintenanceRecord(service_type, t, m) : t \in RecordDates, m \in RecordMileages}

----------------------------------------------------------------------------
(* Evaluator calls *)

EvaluatorCall(car, last_service, service_type) ==
    [car |-> car,
     last_service |-> last_service,
     service_type |-> service_type,
     at |-> DatetimeNow,
     result |-> calculate_service_status(car, last_service, service_type)]

\* one call of _calculate_service_status; the latest call is remembered
Evaluate ==
    /\ \E service_type \in ServiceTypes :
         \E m \in EvalMileages(service_type),
            last_service \in LastServices(service_type) :
              last_call' = EvaluatorCall(Car(1, m), last_service, service_type)
    /\ UNCHANGED <<now, prev_call, analysis, restVars>>

\* the evaluator applied, at any clock value, to any of the inputs
InitEval ==
    /\ now \in NowPoints
    /\ last_call = None
    /\ prev_call = None
    /\ analysis = None
    /\ RestIdle

NextEval == Evaluate

SpecEval == InitEval /\ [][NextEval]_vars

----------------------------------------------------------------------------
(* Two evaluator calls, with the clock advancing between them *)

\* the clock values of the two-call specification: the first record date,
\* and just past 0.8 * 6 months and 6 months after it
PairNowPoints ==
    {(2 + d) * HoursPerDay :
        d \in {0, (4 * 6 * DaysPerMonth) \div 5 + MaxSlack,
               6 * DaysPerMonth + MaxSlack}}

\* a service type of maintenance_rules and one without an entry
PairServiceTypes == {"oil_change", "air_filter"}

\* last_service of the two-call specification: None, or the earliest record
PairLastServices(service_type) ==
    {None} \cup
    {MaintenanceRecord(service_type, 2 * HoursPerDay, m) : m \in RecordMileages}

\* the wall clock advances
Tick ==
    /\ \E t \in PairNowPoints : t > now /\ now' = t
    /\ UNCHANGED <<last_call, prev_call, analysis, restVars>>

\* one call of _calculate_service_status; the latest two calls are remembered
EvaluateAgain ==
    /\ \E service_type \in PairServiceTypes :
         \E m \in EvalMileages(service_type),
            last_service \in PairLastServices(service_type) :
              last_call' = EvaluatorCall(Car(1, m), last_service, service_type)
    /\ prev_call' = last_call
    /\ UNCHANGED <<now, analysis, restVars>>

InitPair ==
    /\ now \in PairNowPoints
    /\ last_call = None
    /\ prev_call = None
    /\ analysis = None
    /\ RestIdle

NextPair == Tick \/ EvaluateAgain

SpecPair == InitPair /\ [][NextPair]_vars

----------------------------------------------------------------------------
(* One aggregator call *)

\* the records of a history: every service type, on either record date
HistoryRecords ==
    {MaintenanceRecord(st, t, m) :
        st \in ServiceTypes, t \in RecordDates, m \in RecordMileages}

RECURSIVE SeqsUpTo(_, _)
SeqsUpTo(S, n) ==
    IF n = 0 THEN {<<>>}
    ELSE LET shorter == SeqsUpTo(S, n - 1)
         IN  shorter \cup {Append(h, x) : h \in shorter, x \in S}

\* maintenance_history: at most MaxHistory records, in any order
Histories == SeqsUpTo(HistoryRecords, MaxHistory)

\* current_mileage of the car: below the records' mileage, within 80% and
\* 100% of the oil change interval, and around each mileage interval
AggMileages ==
    {0, 14500} \cup
    {10000 + maintenance_intervals[st] + d :
        st \in DOMAIN maintenance_intervals, d \in Slack}

\* the clock values: hour 0, the first record date, and around 6 and 12
\* months after it
AggNowPoints ==
    {0, 2 * HoursPerDay} \cup
    {(2 + ti * DaysPerMonth + d) * HoursPerDay : ti \in {6, 12}, d \in Slack}

\* one call of analyze_maintenance_needs, the only one of the behaviour
Analyze ==
    /\ analysis = None
    /\ \E m \in AggMileages, maintenance_history \in Histories :
         analysis' =
           [car |-> Car(1, m),
            maintenance_history |-> maintenance_history,
            result |-> analyze_maintenance_needs(Car(1, m), maintenance_history)]
    /\ UNCHANGED <<now, last_call, prev_call, restVars>>

InitAgg ==
    /\ now \in AggNowPoints
    /\ last_call = None
    /\ prev_call = None
    /\ analysis = None
    /\ RestIdle

NextAgg == Analyze

SpecAgg == InitAgg /\ [][NextAgg]_vars

----------------------------------------------------------------------------
(* Claims about the evaluator, checked under SpecEval *)

\* the latest call had a last service
WithRecord == last_call # None /\ last_call.last_service # None

\* the latest call had none
WithoutRecord == last_call # None /\ last_call.last_service = None

\* the latest call was for a service type that has an entry in maintenance_rules
InCatalog == last_call # None /\ last_call.service_type \in DOMAIN maintenance_rules

\* C1: with a prior record, the status is overdue iff miles_since >
\* mileage_interval or months_since > time_interval_months; otherwise due_soon
\* iff miles_since > 0.8 x mileage_interval or months_since > 0.8 x
\* time_interval_months; otherwise current.  The comparisons are strict:
\* 4000 of 5000 miles with no time trigger is current, and 2000 of 12000
\* miles with 11 of 12 months is due_soon.
C1_StatusDecision ==
    (WithRecord /\ InCatalog) =>
      LET r == last_call.result
          e == maintenance_rules[last_call.service_type]
          mi == e.mileage_interval
          ti == e.time_interval_months
          ms == r.miles_since
          mo == r.months_since
          over == ms > mi \/ mo.num > ti * mo.den
          soon == 10 * ms > 8 * mi \/ 10 * mo.num > 8 * ti * mo.den
      IN  /\ (r.status = "overdue") <=> over
          /\ (r.status = "due_soon") <=> (~over /\ soon)
          /\ (r.status = "current") <=> (~over /\ ~soon)
          /\ (mi = 5000 /\ ms = 4000 /\ 10 * mo.num <= 8 * ti * mo.den)
                => r.status = "current"
          /\ (mi = 12000 /\ ti = 12 /\ ms = 2000 /\ mo.num = 11 * mo.den)
                => r.status = "due_soon"

\* C1 witness: brake_inspection, 2000 miles and 11 months after the last
\* service, is due_soon
C1_Witness ==
    /\ WithRecord
    /\ last_call.service_type = "brake_inspection"
    /\ last_call.result.miles_since = 2000
    /\ last_call.result.months_since = Rat(330, 30)
    /\ last_call.result.status = "due_soon"

\* C2: with no record of the service type the status is overdue, for every
\* mileage (0 included) and every service type.
C2_NoRecordIsOverdue ==
    WithoutRecord => last_call.result.status = "overdue"

\* C2 witness: no record, mileage 0, a service type outside maintenance_rules
C2_Witness ==
    /\ WithoutRecord
    /\ last_call.car.current_mileage = 0
    /\ last_call.service_type = "transmission_service"
    /\ last_call.result.status = "overdue"

\* the service type of the latest call has no time interval in maintenance_rules
NoTimeIntervalDefined ==
    /\ last_call # None
    /\ "time_interval_months" \notin DOMAIN RulesFor(last_call.service_type)

\* the status that miles_since alone gives against the mileage interval
MilesOnlyStatus(ms, mi) ==
    IF ms > mi THEN "overdue"
    ELSE IF 10 * ms > 8 * mi THEN "due_soon" ELSE "current"

\* the latest call's record is not ahead of the car or of the clock
WellFormed(call) ==
    /\ call.last_service.mileage_at_service <= call.car.current_mileage
    /\ call.last_service.date_performed <= call.at

C5_NegativeMilesRejected ==
    (WithRecord
       /\ last_call.last_service.mileage_at_service > last_call.car.current_mileage)
      => ~ ("miles_since" \in DOMAIN last_call.result
              /\ last_call.result.miles_since < 0)

\* the overdue magnitudes a result reports
OverdueKeys == {"overdue_miles", "miles_overdue"}

\* C8: for all inputs, with or without a record, also with a record whose
\* mileage exceeds the current mileage or whose date is after now, the
\* reported overdue miles and overdue months are >= 0.
C8_OverdueNonNegative ==
    last_call # None =>
      LET r == last_call.result
      IN  /\ \A k \in OverdueKeys \cap DOMAIN r : r[k] >= 0
          /\ "overdue_months" \in DOMAIN r =>
                r.overdue_months.num >= 0 /\ r.overdue_months.den > 0

\* C8 witness: the record's mileage exceeds the current mileage and its date
\* is after now; both magnitudes are clamped to 0
C8_Witness ==
    /\ WithRecord
    /\ last_call.result.miles_since < 0
    /\ last_call.result.months_since.num < 0
    /\ last_call.result.overdue_miles = 0
    /\ last_call.result.overdue_months.num = 0

\* C9: with a prior record, overdue_miles = max(0, miles_since -
\* mileage_interval), miles_since = current_mileage - mileage_at_service;
\* interval 5000, last service at 10000, mileage 15500: overdue, 500.
C9_OverdueMiles ==
    (WithRecord /\ InCatalog) =>
      LET r == last_call.result
          mi == maintenance_rules[last_call.service_type].mileage_interval
          ms == last_call.car.current_mileage
                  - last_call.last_service.mileage_at_service
      IN  /\ r.miles_since = ms
          /\ r.overdue_miles = IF ms - mi >= 0 THEN ms - mi ELSE 0
          /\ (mi = 5000 /\ last_call.last_service.mileage_at_service = 10000
                /\ last_call.car.current_mileage = 15500)
               => (r.status = "overdue" /\ r.overdue_miles = 500)

\* C9 witness: the example
C9_Witness ==
    /\ WithRecord
    /\ last_call.service_type = "oil_change"
    /\ last_call.last_service.mileage_at_service = 10000
    /\ last_call.car.current_mileage = 15500
    /\ last_call.result.status = "overdue"
    /\ last_call.result.overdue_miles = 500

----------------------------------------------------------------------------
(* Claims about two evaluator calls, checked under SpecPair *)

TwoCalls == prev_call # None /\ last_call # None

\* C6: two evaluations with identical explicit inputs (car, last service or
\* none, service type) return identical results, however the wall clock
\* differs between the two calls.  (Stated for a well-formed record; it fails
\* there already.)
C6_ClockIndependent ==
    (TwoCalls
       /\ prev_call.car = last_call.car
       /\ prev_call.last_service = last_call.last_service
       /\ prev_call.service_type = last_call.service_type
       /\ last_call.last_service # None
       /\ WellFormed(prev_call) /\ WellFormed(last_call))
      => prev_call.result = last_call.result

\* current < due_soon < overdue
StatusRank(status) ==
    CASE status = "current" -> 0
      [] status = "due_soon" -> 1
      [] status = "overdue" -> 2

\* C7: with the record, the service type and the evaluation time fixed, a
\* larger current_mileage never gives an earlier status in the order
\* current < due_soon < overdue.
C7_MileageMonotone ==
    (TwoCalls
       /\ prev_call.last_service = last_call.last_service
       /\ prev_call.service_type = last_call.service_type
       /\ prev_call.at = last_call.at)
      => \/ /\ prev_call.car.current_mileage <= last_call.car.current_mileage
            /\ StatusRank(prev_call.result.status)
                 <= StatusRank(last_call.result.status)
         \/ /\ prev_call.car.current_mileage >= last_call.car.current_mileage
            /\ StatusRank(prev_call.result.status)
                 >= StatusRank(last_call.result.status)

\* C7 witness: same record and clock, the mileage raised from 14000 to 15001,
\* the status moved from current to overdue
C7_Witness ==
    /\ TwoCalls
    /\ prev_call.last_service # None
    /\ prev_call.last_service = last_call.last_service
    /\ prev_call.service_type = last_call.service_type
    /\ prev_call.at = last_call.at
    /\ prev_call.car.current_mileage = 14000
    /\ last_call.car.current_mileage = 15001
    /\ prev_call.result.status = "current"
    /\ last_call.result.status = "overdue"

----------------------------------------------------------------------------
(* Claims about the aggregator, checked under SpecAgg *)

\* the service types of the returned recommendations
RecommendedTypes ==
    {analysis.result.recommendations[i].service_type :
        i \in 1..Len(analysis.result.recommendations)}

\* the evaluator's status for the aggregator call's car, history and time
EvaluatorStatus(service_type) ==
    ServiceStatusAt(analysis.car,
                    find_last_service(analysis.maintenance_history, service_type),
                    service_type,
                    analysis.result.analysis_date).status

\* the service types both agents have in their tables
CommonTypes == DOMAIN maintenance_intervals \cap DOMAIN maintenance_rules

----------------------------------------------------------------------------
(* OpenAIService: the text of a completion and its parsing *)

\* message.content of a completion: JSON objects with and without an
\* "actions" list, prose, and the empty string
PlanNone == "{\"actions\": []}"
PlanNotify == "{\"actions\": [{\"type\": \"notification\"}]}"
PlanFollowupNotify ==
    "{\"actions\": [{\"type\": \"schedule_followup\"}, {\"type\": \"notification\"}]}"
PlanPricesNotify ==
    "{\"actions\": [{\"type\": \"price_research\"}, {\"type\": \"notification\"}]}"
PlanResearch == "{\"actions\": [{\"type\": \"research_mechanics\"}]}"
NoPlan == "{\"urgent_items\": []}"
Prose == "Sure! I would send a reminder about the oil change."
Empty == ""

ResponseContents ==
    {PlanNone, PlanNotify, PlanFollowupNotify, PlanPricesNotify, PlanResearch,
     NoPlan, Prose, Empty}

\* json.loads on these texts: the parsed object, or JSONDecodeError
json_loads(text) ==
    LET Action(type) == [type |-> type]
        Parsed(value) == [raised |-> FALSE, value |-> value]
    IN  CASE text = PlanNone -> Parsed([actions |-> <<>>])
          [] text = PlanNotify ->
               Parsed([actions |-> <<Action("notification")>>])
          [] text = PlanFollowupNotify ->
               Parsed([actions |-> <<Action("schedule_followup"),
                                     Action("notification")>>])
          [] text = PlanPricesNotify ->
               Parsed([actions |-> <<Action("price_research"),
                                     Action("notification")>>])
          [] text = PlanResearch ->
               Parsed([actions |-> <<Action("research_mechanics")>>])
          [] text = NoPlan -> Parsed([urgent_items |-> <<>>])
          [] OTHER -> [raised |-> TRUE, value |-> None]

\* a parser without the except clause: the decode error reaches the caller
parse_json_response_NoFallback(response) ==
    LET loaded == json_loads(response)
    IN  IF loaded.raised
        THEN [raised |-> TRUE, value |-> None]
        ELSE [raised |-> FALSE, value |-> loaded.value]

\* OpenAIService._parse_json_response: try json.loads, except: the fallback
parse_json_response(response) ==
    LET loaded == json_loads(response)
    IN  IF loaded.raised
        THEN [raised |-> FALSE,
              value |-> [error |-> "Failed to parse response",
                         raw |-> response]]
        ELSE [raised |-> FALSE, value |-> loaded.value]

----------------------------------------------------------------------------
(* NotificationService *)

\* what a function call comes to: a returned value, or an exception that
\* reaches the caller
Returned(value) == [raised |-> FALSE, value |-> value]
Raised == [raised |-> TRUE, value |-> None]

\* send_push_notification: builds the payload, prints, and returns; the
\* timestamp of the id is the clock in seconds
send_push_notification(user_id, message) ==
    Returned([status |-> "sent",
              notification_id |->
                "notif_" \o ToString(user_id) \o "_" \o ToString(now * 3600)])

\* send_sms: twilio_client.messages.create inside try / except Exception
send_sms(phone_number, message, twilio) ==
    IF twilio = "accepted"
    THEN Returned([status |-> "sent", message_sid |-> "SM1"])
    ELSE Returned([status |-> "failed", error |-> "twilio error"])

\* send_email: prints and returns
send_email(email, subject, body) == Returned([status |-> "sent"])

\* schedule_notification: send_maintenance_reminder.apply_async(...) with no
\* handler around it, then the scheduled result
schedule_notification(user_id, message, send_time, queue) ==
    IF queue = "accepted"
    THEN Returned([status |-> "scheduled", send_time |-> send_time])
    ELSE Raised

----------------------------------------------------------------------------
(* Single calls of the helper and service functions *)

\* one call: the function, its arguments, whether it returned or raised,
\* and what it returned
FnCall(fn, args, outcome, result) ==
    [fn |-> fn, args |-> args, outcome |-> outcome, result |-> result]

\* no call has been made yet in this behaviour
NoCallYet == fn_call = None /\ analysis = None /\ last_call = None

\* the records of the histories searched for a last service: two service
\* types, either record date, two mileages
LookupRecords ==
    {MaintenanceRecord(st, t, m) :
        st \in {"oil_change", "tire_rotation"}, t \in RecordDates,
        m \in {10000, 12000}}

LookupHistories == SeqsUpTo(LookupRecords, MaxHistory)

\* the service types looked up: the two of the records and one without any
LookupTypes == {"oil_change", "tire_rotation", "brake_inspection"}

\* one call of AutonomousMaintenanceAgent._find_last_service
CallFindLastService ==
    /\ NoCallYet
    /\ \E maintenance_history \in LookupHistories, service_type \in LookupTypes :
         fn_call' =
           FnCall("_find_last_service",
                  [maintenance_history |-> maintenance_history,
                   service_type |-> service_type],
                  "returned",
                  find_last_service(maintenance_history, service_type))
    /\ UNCHANGED <<now, last_call, prev_call, analysis, store, daily, tasks>>

\* one call of MaintenanceAgent._get_last_service
CallGetLastService ==
    /\ NoCallYet
    /\ \E maintenance_history \in LookupHistories, service_type \in LookupTypes :
         fn_call' =
           FnCall("_get_last_service",
                  [maintenance_history |-> maintenance_history,
                   service_type |-> service_type],
                  "returned",
                  get_last_service(maintenance_history, service_type))
    /\ UNCHANGED <<now, last_call, prev_call, analysis, store, daily, tasks>>

\* the priorities given to the items of the lists that are sorted: those of
\* maintenance_rules, so that two items can carry the same one
SortPriorities == {6, 9, 10}

\* a recommendations list as the loop over maintenance_intervals builds it:
\* the service types of prio, in the iteration order of the table
RECURSIVE RecommendationList(_, _)
RecommendationList(keys, prio) ==
    IF keys = <<>> THEN <<>>
    ELSE LET service_type == Head(keys)
             rest == RecommendationList(Tail(keys), prio)
         IN  IF service_type \in DOMAIN prio
             THEN <<[service_type |-> service_type,
                     reason |-> "No record of " \o service_type,
                     priority |-> prio[service_type],
                     estimated_cost |-> estimate_cost(service_type, Car(1, 0))]>>
                    \o rest
             ELSE rest

\* every such list with up to five items
RecommendationLists ==
    {RecommendationList(maintenance_intervals_keys, prio) :
        prio \in UNION {[types -> SortPriorities] :
                          types \in SUBSET DOMAIN maintenance_intervals}}

\* the sort at the end of analyze_maintenance_needs, applied to one list
CallSorted ==
    /\ NoCallYet
    /\ \E recommendations \in RecommendationLists :
         fn_call' =
           FnCall("sorted",
                  [recommendations |-> recommendations],
                  "returned",
                  SortedByPriorityDesc(recommendations))
    /\ UNCHANGED <<now, last_call, prev_call, analysis, store, daily, tasks>>

\* one call of analyze_maintenance_needs, the only call of the behaviour
AnalyzeOnce == NoCallYet /\ Analyze

\* the service types a cost is estimated for: those of the tables and one
\* that no table holds
CostServiceTypes == ServiceTypes \cup {"spark_plugs"}

\* one call of MaintenanceAgent._estimate_cost
CallEstimateCost ==
    /\ NoCallYet
    /\ \E service_type \in CostServiceTypes, m \in AggMileages :
         fn_call' =
           FnCall("_estimate_cost",
                  [service_type |-> service_type, car |-> Car(1, m)],
                  "returned",
                  estimate_cost(service_type, Car(1, m)))
    /\ UNCHANGED <<now, last_call, prev_call, analysis, store, daily, tasks>>

\* a call of the generation service: the request to the completion API
\* fails and the error reaches the caller, or it yields a text, which
\* _parse_json_response turns into the returned dict
GenerationCall(fn, api, content) ==
    LET parsed == parse_json_response(content)
    IN  IF api = "failed"
        THEN FnCall(fn, [api |-> api, content |-> ""], "raised", None)
        ELSE FnCall(fn, [api |-> api, content |-> content],
                    IF parsed.raised THEN "raised" ELSE "returned",
                    parsed.value)

\* one call of OpenAIService.generate_maintenance_recommendation
CallGenerateRecommendation ==
    /\ NoCallYet
    /\ \E api \in {"completed", "failed"}, content \in ResponseContents :
         fn_call' =
           GenerationCall("generate_maintenance_recommendation", api, content)
    /\ UNCHANGED <<now, last_call, prev_call, analysis, store, daily, tasks>>

\* one call of OpenAIService.decide_autonomous_action
CallDecideAction ==
    /\ NoCallYet
    /\ \E api \in {"completed", "failed"}, content \in ResponseContents :
         fn_call' = GenerationCall("decide_autonomous_action", api, content)
    /\ UNCHANGED <<now, last_call, prev_call, analysis, store, daily, tasks>>

\* User.id of the users notified
UserIds == {1, 2}

\* the outcome of the channel a notification operation hands the message to
\* (Twilio for send_sms, the Celery broker for schedule_notification)
ChannelOutcomes == {"accepted", "error"}

\* one call of a NotificationService operation
NotificationCall(fn, channel, call) ==
    FnCall(fn, [channel |-> channel],
           IF call.raised THEN "raised" ELSE "returned", call.value)

CallSendPushNotification ==
    /\ NoCallYet
    /\ \E user_id \in UserIds :
         fn_call' =
           NotificationCall("send_push_notification", "none",
                            send_push_notification(user_id, "message"))
    /\ UNCHANGED <<now, last_call, prev_call, analysis, store, daily, tasks>>

CallSendSms ==
    /\ NoCallYet
    /\ \E twilio \in ChannelOutcomes :
         fn_call' =
           NotificationCall("send_sms", twilio,
                            send_sms("+15550100", "message", twilio))
    /\ UNCHANGED <<now, last_call, prev_call, analysis, store, daily, tasks>>

CallSendEmail ==
    /\ NoCallYet
    /\ fn_call' =
         NotificationCall("send_email", "none",
                          send_email("user@example.com", "subject", "body"))
    /\ UNCHANGED <<now, last_call, prev_call, analysis, store, daily, tasks>>

CallScheduleNotification ==
    /\ NoCallYet
    /\ \E user_id \in UserIds, queue \in ChannelOutcomes :
         fn_call' =
           NotificationCall("schedule_notification", queue,
                            schedule_notification(user_id, "message",
                                                  now + HoursPerDay, queue))
    /\ UNCHANGED <<now, last_call, prev_call, analysis, store, daily, tasks>>

\* one call of _calculate_service_status, the only call of the behaviour
EvaluateOnce == NoCallYet /\ Evaluate

InitCalls ==
    /\ now \in AggNowPoints
    /\ last_call = None
    /\ prev_call = None
    /\ analysis = None
    /\ RestIdle

NextCalls ==
    \/ CallFindLastService
    \/ CallGetLastService
    \/ CallSorted
    \/ AnalyzeOnce
    \/ EvaluateOnce
    \/ CallEstimateCost
    \/ CallGenerateRecommendation
    \/ CallDecideAction
    \/ CallSendPushNotification
    \/ CallSendSms
    \/ CallSendEmail
    \/ CallScheduleNotification

SpecCalls == InitCalls /\ [][NextCalls]_vars

----------------------------------------------------------------------------
(* Evaluations and aggregations over stored vehicles, in any order *)

Vehicles == {1, 2}

\* the records of the stored histories: the earliest record of a service
\* type of maintenance_rules and of one without an entry
StoredRecords ==
    {MaintenanceRecord(st, 2 * HoursPerDay, m) :
        st \in PairServiceTypes, m \in RecordMileages}

StoredHistories == SeqsUpTo(StoredRecords, MaxHistory)

\* current_mileage of the stored cars: the examples of the specification
StoredMileages == {12000, 15500}

\* the tables the agents are constructed with, and the vehicles and their
\* histories as the database holds them
Stores ==
    {[maintenance_rules |-> maintenance_rules,
      maintenance_intervals |-> maintenance_intervals,
      time_intervals |-> time_intervals,
      cars |-> [v \in Vehicles |-> Car(v, mileage[v])],
      histories |-> histories] :
        mileage \in [Vehicles -> StoredMileages],
        histories \in [Vehicles -> StoredHistories]}

\* an evaluation that enters the defaults of an unknown service type into
\* maintenance_rules (rules = self.maintenance_rules.setdefault(...))
EvaluateVehicle_SetDefault(v) ==
    /\ \E service_type \in PairServiceTypes :
         /\ last_call' =
              EvaluatorCall(store.cars[v],
                            find_last_service(store.histories[v], service_type),
                            service_type)
         /\ store' =
              [store EXCEPT !.maintenance_rules =
                 [st \in DOMAIN store.maintenance_rules \cup {service_type} |->
                    Get(store.maintenance_rules, st, EmptyDict)]]
    /\ UNCHANGED <<now, prev_call, analysis, fn_call, daily, tasks>>

\* the evaluator applied to a stored vehicle, as _build_car_context does for
\* a service type: it assigns to locals only
EvaluateVehicle(v) ==
    /\ \E service_type \in PairServiceTypes :
         last_call' =
           EvaluatorCall(store.cars[v],
                         find_last_service(store.histories[v], service_type),
                         service_type)
    /\ UNCHANGED <<now, prev_call, analysis, fn_call, store, daily, tasks>>

\* the aggregator applied to a stored vehicle: it builds a new list and
\* returns a sorted copy of it
AnalyzeVehicle(v) ==
    /\ analysis' =
         [car |-> store.cars[v],
          maintenance_history |-> store.histories[v],
          result |-> analyze_maintenance_needs(store.cars[v],
                                               store.histories[v])]
    /\ UNCHANGED <<now, last_call, prev_call, fn_call, store, daily, tasks>>

InitFrame ==
    /\ now \in PairNowPoints
    /\ last_call = None
    /\ prev_call = None
    /\ analysis = None
    /\ fn_call = None
    /\ store \in Stores
    /\ daily = None
    /\ tasks = None

NextFrame ==
    \E v \in Vehicles :
      \/ EvaluateVehicle(v)
      \/ AnalyzeVehicle(v)

SpecFrame == InitFrame /\ [][NextFrame]_vars

----------------------------------------------------------------------------
(* AutonomousMaintenanceAgent.autonomous_daily_check *)

\* what _get_active_users may hand over: no user, or users with one or two
\* cars, in either order
ActiveUserLists ==
    LET first == [id |-> 1, cars |-> <<1, 2>>]
        second == [id |-> 2, cars |-> <<3>>]
    IN  {<<>>, <<first>>, <<first, second>>, <<second, first>>}

\* the user and the car the loops are at
CurrentUser == daily.active_users[daily.ui]
CurrentCar == CurrentUser.cars[daily.ci]

\* the log of the run, with the steps taken for the current car added
Logged(steps) ==
    daily.log \o
      [i \in 1..Len(steps) |->
         [user |-> CurrentUser.id, car |-> CurrentCar, step |-> steps[i]]]

\* a loop over the users without the try / except: the exception leaves
\* autonomous_daily_check
UserFailed_Reraise(steps) ==
    [daily EXCEPT !.log = Logged(steps),
                  !.action_plan = None,
                  !.pc = "raised"]

\* an exception leaves _analyze_user_cars: the except clause of
\* autonomous_daily_check prints it and the loop goes on to the next user
UserFailed(steps) ==
    [daily EXCEPT !.log = Logged(steps),
                  !.errors = Append(@, CurrentUser.id),
                  !.action_plan = None,
                  !.pc = "users"]

\* _execute_autonomous_actions: the actions of the plan in list order, up to
\* the first that raises. _schedule_followup_check and
\* _research_service_prices are not defined in the class, so calling them
\* raises AttributeError; find_nearby_mechanics raises when the Maps API does.
RECURSIVE RunActions(_, _)
RunActions(actions, maps) ==
    IF actions = <<>> THEN [steps |-> <<>>, raised |-> FALSE]
    ELSE LET action_type == Get(Head(actions), "type", None)
             rest == RunActions(Tail(actions), maps)
             Stop == [steps |-> <<action_type>>, raised |-> TRUE]
             Go == [steps |-> <<action_type>> \o rest.steps,
                    raised |-> rest.raised]
         IN  CASE action_type = "notification" -> Go
               [] action_type = "research_mechanics" ->
                    IF maps = "accepted" THEN Go ELSE Stop
               [] action_type \in {"schedule_followup", "price_research"} ->
                    Stop
               [] OTHER -> rest

\* for user in active_users: the next user, or the end of the check
NextUser ==
    /\ daily.pc = "users"
    /\ daily' =
         IF daily.ui < Len(daily.active_users)
         THEN [daily EXCEPT !.ui = @ + 1, !.ci = 0, !.pc = "cars"]
         ELSE [daily EXCEPT !.pc = "done"]
    /\ UNCHANGED <<now, last_call, prev_call, analysis, fn_call, store, tasks>>

\* for car in user.cars: the next car, or back to the loop over the users
NextCar ==
    /\ daily.pc = "cars"
    /\ daily' =
         IF daily.ci < Len(CurrentUser.cars)
         THEN [daily EXCEPT !.ci = @ + 1, !.pc = "build_context"]
         ELSE [daily EXCEPT !.action_plan = None, !.pc = "users"]
    /\ UNCHANGED <<now, last_call, prev_call, analysis, fn_call, store, tasks>>

\* a context builder that evaluates before the history has been fetched
StepBuildContext_EvaluateFirst ==
    /\ daily.pc = "build_context"
    /\ daily' = [daily EXCEPT !.log = Logged(<<"evaluate", "fetch_history">>),
                              !.pc = "generate"]
    /\ UNCHANGED <<now, last_call, prev_call, analysis, fn_call, store, tasks>>

\* _build_car_context: the history is fetched, then every service type of
\* maintenance_rules is evaluated
StepBuildContext ==
    /\ daily.pc = "build_context"
    /\ daily' = [daily EXCEPT !.log = Logged(<<"fetch_history", "evaluate">>),
                              !.pc = "generate"]
    /\ UNCHANGED <<now, last_call, prev_call, analysis, fn_call, store, tasks>>

\* generate_maintenance_recommendation: its result is not used afterwards
StepGenerate ==
    /\ daily.pc = "generate"
    /\ \E api \in {"completed", "failed"} :
         daily' =
           IF api = "completed"
           THEN [daily EXCEPT !.log = Logged(<<"generate">>), !.pc = "decide"]
           ELSE UserFailed(<<"generate">>)
    /\ UNCHANGED <<now, last_call, prev_call, analysis, fn_call, store, tasks>>

\* decide_autonomous_action: the action plan
StepDecide ==
    /\ daily.pc = "decide"
    /\ \E api \in {"completed", "failed"}, content \in ResponseContents :
         daily' =
           IF api = "completed"
           THEN [daily EXCEPT !.log = Logged(<<"decide">>),
                              !.action_plan = parse_json_response(content).value,
                              !.pc = "execute"]
           ELSE UserFailed(<<"decide">>)
    /\ UNCHANGED <<now, last_call, prev_call, analysis, fn_call, store, tasks>>

\* an executor that reads action_plan["actions"] without a default: KeyError
\* for a plan that has no such entry
StepExecute_KeyError ==
    /\ daily.pc = "execute"
    /\ \E maps \in ChannelOutcomes :
         LET run == RunActions(Get(daily.action_plan, "actions", <<>>), maps)
         IN  daily' =
               IF run.raised \/ "actions" \notin DOMAIN daily.action_plan
               THEN UserFailed(run.steps)
               ELSE [daily EXCEPT !.log = Logged(run.steps), !.pc = "cars"]
    /\ UNCHANGED <<now, last_call, prev_call, analysis, fn_call, store, tasks>>

\* _execute_autonomous_actions(user, car, action_plan)
StepExecute ==
    /\ daily.pc = "execute"
    /\ \E maps \in ChannelOutcomes :
         LET run == RunActions(Get(daily.action_plan, "actions", <<>>), maps)
         IN  daily' =
               IF run.raised
               THEN UserFailed(run.steps)
               ELSE [daily EXCEPT !.log = Logged(run.steps), !.pc = "cars"]
    /\ UNCHANGED <<now, last_call, prev_call, analysis, fn_call, store, tasks>>

InitDaily ==
    /\ now \in PairNowPoints
    /\ last_call = None
    /\ prev_call = None
    /\ analysis = None
    /\ fn_call = None
    /\ store = None
    /\ tasks = None
    /\ \E active_users \in ActiveUserLists :
         daily = [active_users |-> active_users, pc |-> "users",
                  ui |-> 0, ci |-> 0, action_plan |-> None,
                  log |-> <<>>, errors |-> <<>>]

NextDaily ==
    \/ NextUser
    \/ NextCar
    \/ StepBuildContext
    \/ StepGenerate
    \/ StepDecide
    \/ StepExecute

SpecDaily == InitDaily /\ [][NextDaily]_vars

----------------------------------------------------------------------------
(* Claims about the helper functions, checked under SpecCalls *)

\* the latest call was a last-service lookup
IsLookup ==
    /\ fn_call # None
    /\ fn_call.fn \in {"_find_last_service", "_get_last_service"}

\* C11: the last service selected for a type is a record of the history of
\* that type, no record of that type has a strictly later date_performed,
\* and the selection is None exactly when the history has no record of that
\* type.
C11_LastServiceIsLatest ==
    IsLookup =>
      LET h == fn_call.args.maintenance_history
          st == fn_call.args.service_type
          OfType == {i \in 1..Len(h) : h[i].service_type = st}
      IN  /\ (fn_call.result = None) <=> (OfType = {})
          /\ fn_call.result # None =>
               /\ \E i \in OfType : h[i] = fn_call.result
               /\ fn_call.result.service_type = st
               /\ \A i \in OfType :
                    h[i].date_performed <= fn_call.result.date_performed

\* C11 witness: the history holds the later oil change before the earlier
\* one, and the later one is selected
C11_Witness ==
    /\ IsLookup
    /\ fn_call.args.service_type = "oil_change"
    /\ Len(fn_call.args.maintenance_history) = 2
    /\ fn_call.args.maintenance_history[1] =
         MaintenanceRecord("oil_change", 2 * HoursPerDay + 1, 12000)
    /\ fn_call.args.maintenance_history[2] =
         MaintenanceRecord("oil_change", 2 * HoursPerDay, 10000)
    /\ fn_call.result = fn_call.args.maintenance_history[1]

\* the latest call was the sort
IsSort == fn_call # None /\ fn_call.fn = "sorted"

\* the priorities of a list of recommendations, in its order
Priorities(recommendations) ==
    [i \in 1..Len(recommendations) |-> recommendations[i].priority]

NonIncreasing(ps) == \A i \in 1..(Len(ps) - 1) : ps[i] >= ps[i + 1]

\* both lists hold the same items
SameItems(a, b) ==
    /\ Len(a) = Len(b)
    /\ \A i \in 1..Len(a) :
         Cardinality({j \in 1..Len(a) : a[j] = a[i]})
           = Cardinality({j \in 1..Len(b) : b[j] = a[i]})

\* C12: the recommendations returned by analyze_maintenance_needs are in
\* non-increasing priority order for every vehicle and history; the sort
\* returns the items of its input in non-increasing priority order, and
\* items of priority 10, 9 and 6, listed in any order, come out as
\* [10, 9, 6].
C12_SortedByPriority ==
    /\ analysis # None =>
         NonIncreasing(Priorities(analysis.result.recommendations))
    /\ IsSort =>
         /\ NonIncreasing(Priorities(fn_call.result))
         /\ SameItems(fn_call.args.recommendations, fn_call.result)
         /\ (/\ Len(fn_call.args.recommendations) = 3
             /\ {fn_call.args.recommendations[i].priority : i \in 1..3}
                  = {10, 9, 6})
              => Priorities(fn_call.result) = <<10, 9, 6>>

\* C12 witness: the list [oil_change: 6, tire_rotation: 10,
\* brake_inspection: 9] is sorted to [10, 9, 6]
C12_Witness ==
    /\ IsSort
    /\ Priorities(fn_call.args.recommendations) = <<6, 10, 9>>
    /\ Priorities(fn_call.result) = <<10, 9, 6>>
    /\ fn_call.result[1].service_type = "tire_rotation"

\* the position of a service type in the iteration order of
\* maintenance_intervals
CatalogIndex(service_type) ==
    CHOOSE i \in 1..Len(maintenance_intervals_keys) :
      maintenance_intervals_keys[i] = service_type

\* recommendations of equal priority are in catalog iteration order
TiesInCatalogOrder(recommendations) ==
    \A i, j \in 1..Len(recommendations) :
      (i < j /\ recommendations[i].priority = recommendations[j].priority)
        => CatalogIndex(recommendations[i].service_type)
             < CatalogIndex(recommendations[j].service_type)

C14_PriorityIsStatic ==
    /\ last_call # None =>
         last_call.result.priority =
           CASE last_call.service_type = "oil_change" -> 10
             [] last_call.service_type = "brake_inspection" -> 9
             [] last_call.service_type = "tire_rotation" -> 6
             [] OTHER -> 5
    /\ analysis # None =>
         \A i \in 1..Len(analysis.result.recommendations) :
           LET rec == analysis.result.recommendations[i]
           IN  rec.priority =
                 CASE rec.service_type = "oil_change" -> 10
                   [] rec.service_type = "brake_inspection" -> 9
                   [] rec.service_type = "transmission_service" -> 7
                   [] rec.service_type = "tire_rotation" -> 5
                   [] rec.service_type = "air_filter" -> 4

\* C14 witness: 30001 miles after the last oil change (six intervals) the
\* oil_change recommendation has priority 10, and the tire_rotation that was
\* never performed has priority 5
C14_Witness ==
    /\ analysis # None
    /\ analysis.car.current_mileage = 40001
    /\ \E i \in 1..Len(analysis.result.recommendations) :
         LET rec == analysis.result.recommendations[i]
         IN  /\ rec.service_type = "oil_change"
             /\ rec.reason = "30001 miles since last oil_change"
             /\ rec.priority = 10
    /\ \E i \in 1..Len(analysis.result.recommendations) :
         LET rec == analysis.result.recommendations[i]
         IN  /\ rec.service_type = "tire_rotation"
             /\ rec.reason = "No record of tire_rotation"
             /\ rec.priority = 5

\* the latest call was a cost estimate
IsCostEstimate == fn_call # None /\ fn_call.fn = "_estimate_cost"

\* the cost table, as pairs of bounds
TableRange(service_type) ==
    CASE service_type = "oil_change" -> <<30, 80>>
      [] service_type = "brake_inspection" -> <<100, 300>>
      [] service_type = "tire_rotation" -> <<20, 50>>
      [] service_type = "air_filter" -> <<15, 40>>
      [] service_type = "transmission_service" -> <<150, 400>>
      [] OTHER -> <<50, 200>>

IsTableRange(cost, service_type) ==
    /\ cost.min = TableRange(service_type)[1]
    /\ cost.max = TableRange(service_type)[2]
    /\ 0 <= cost.min
    /\ cost.min <= cost.max

\* C15: the estimated cost of a service type is the fixed range of the cost
\* table, or {min 50, max 200} for a type the table does not hold, whatever
\* the car; every recommendation carries that range, and 0 <= min <= max.
C15_EstimatedCost ==
    /\ IsCostEstimate =>
         IsTableRange(fn_call.result, fn_call.args.service_type)
    /\ analysis # None =>
         \A i \in 1..Len(analysis.result.recommendations) :
           IsTableRange(analysis.result.recommendations[i].estimated_cost,
                        analysis.result.recommendations[i].service_type)

\* C15 witness: a type that is not in the cost table is estimated at 50..200
C15_Witness ==
    /\ IsCostEstimate
    /\ fn_call.args.service_type = "spark_plugs"
    /\ fn_call.result = [min |-> 50, max |-> 200]

----------------------------------------------------------------------------
(* Further claims about the evaluator, checked under SpecEval *)

\* C16: for a record that is not later than the clock, months_since is the
\* elapsed time in days divided by 30, the days being the whole days elapsed
\* (days * 24 hours <= elapsed hours < (days + 1) * 24 hours).
C16_MonthsSince ==
    (WithRecord /\ last_call.last_service.date_performed <= last_call.at) =>
      LET elapsed == last_call.at - last_call.last_service.date_performed
          days == CHOOSE d \in 0..elapsed :
                    d * 24 <= elapsed /\ elapsed < (d + 1) * 24
          months_since == last_call.result.months_since
      IN  months_since.num * 30 = days * months_since.den

\* C16 witness: a record of hour 49, evaluated 180 days after hour 48: 179
\* whole days have elapsed and months_since is 179 / 30
C16_Witness ==
    /\ WithRecord
    /\ last_call.last_service.date_performed = 49
    /\ last_call.at = 48 + 180 * 24
    /\ last_call.result.months_since = Rat(179, 30)

----------------------------------------------------------------------------
(* Claims about stored state, checked under SpecFrame *)

\* C17: no evaluator call and no aggregator call changes maintenance_rules,
\* maintenance_intervals, time_intervals, a vehicle or a record of a
\* history: in every step of every interleaving of evaluations and
\* aggregations for the vehicles, the store is left as it was.
C17_CallsLeaveStoreUnchanged == [][store' = store]_vars

\* C17 witness: vehicle 1 has been evaluated and vehicle 2, which has a
\* history of two records, has been aggregated; the tables are those of the
\* construction
C17_Witness ==
    /\ last_call # None
    /\ analysis # None
    /\ last_call.car.id = 1
    /\ analysis.car.id = 2
    /\ Len(store.histories[2]) = 2
    /\ last_call.service_type = "air_filter"
    /\ store.maintenance_rules = maintenance_rules
    /\ store.maintenance_intervals = maintenance_intervals
    /\ store.time_intervals = time_intervals

----------------------------------------------------------------------------
(* Claims about the generation service, checked under SpecCalls *)

\* the latest call was one of the two generation calls
IsGeneration ==
    /\ fn_call # None
    /\ fn_call.fn \in {"generate_maintenance_recommendation",
                       "decide_autonomous_action"}

\* C20: when the completion is a text that is not JSON (prose, or the empty
\* string), generate_maintenance_recommendation and decide_autonomous_action
\* return the fallback dict {error, raw} holding that text, and raise
\* nothing.
C20_ParseFailureFallsBack ==
    (/\ IsGeneration
     /\ fn_call.args.api = "completed"
     /\ fn_call.args.content \in
          {"Sure! I would send a reminder about the oil change.", ""}) =>
      /\ fn_call.outcome = "returned"
      /\ DOMAIN fn_call.result = {"error", "raw"}
      /\ fn_call.result.error = "Failed to parse response"
      /\ fn_call.result.raw = fn_call.args.content

\* C20 witness: decide_autonomous_action got prose and returned the fallback
C20_Witness ==
    /\ IsGeneration
    /\ fn_call.fn = "decide_autonomous_action"
    /\ fn_call.args.api = "completed"
    /\ fn_call.args.content = Prose
    /\ fn_call.outcome = "returned"
    /\ fn_call.result =
         [error |-> "Failed to parse response", raw |-> Prose]

----------------------------------------------------------------------------
(* Claims about the notification service, checked under SpecCalls *)

\* the latest call was an operation of the notification service
IsNotification ==
    /\ fn_call # None
    /\ fn_call.fn \in {"send_push_notification", "send_sms", "send_email",
                       "schedule_notification"}

\* C19: every operation of the notification service returns a result whose
\* status is sent, failed or scheduled and raises nothing, and an error of
\* the channel it uses is reported as status failed.
C19_NotificationsNeverRaise ==
    IsNotification =>
      /\ fn_call.outcome = "returned"
      /\ fn_call.result.status \in {"sent", "failed", "scheduled"}
      /\ fn_call.args.channel = "error" => fn_call.result.status = "failed"

\* the part of C19 that send_push_notification, send_sms and send_email
\* keep: they return sent, or failed on a Twilio error, and never raise
SendOperationsReturnStatus ==
    (IsNotification /\ fn_call.fn # "schedule_notification") =>
      /\ fn_call.outcome = "returned"
      /\ fn_call.result.status =
           IF fn_call.args.channel = "error" THEN "failed" ELSE "sent"

----------------------------------------------------------------------------
(* Claims about the daily check, checked under SpecDaily *)

\* the cars whose processing was started in the run
AttemptedCars == {daily.log[i].car : i \in 1..Len(daily.log)}

\* the cars of a list of users
CarsOf(users) ==
    UNION {{users[i].cars[j] : j \in 1..Len(users[i].cars)} :
             i \in 1..Len(users)}

\* C18: when the daily check has ended, every vehicle of every active user
\* has been attempted, whatever failed while another vehicle was processed.
C18_EveryVehicleAttempted ==
    daily.pc = "done" => CarsOf(daily.active_users) \subseteq AttemptedCars

\* what the except clause of autonomous_daily_check does give: when the
\* check has ended, the first vehicle of every active user has been
\* attempted, and a vehicle is skipped only after an error of its user
FailuresIsolatedPerUser ==
    daily.pc = "done" =>
      \A i \in 1..Len(daily.active_users) :
        LET user == daily.active_users[i]
        IN  /\ user.cars[1] \in AttemptedCars
            /\ (\E j \in 1..Len(user.cars) : user.cars[j] \notin AttemptedCars)
                 => \E k \in 1..Len(daily.errors) : daily.errors[k] = user.id

----------------------------------------------------------------------------
(* The Celery tasks of maintenance_monitor.py *)

\* @celery.task(bind=True, max_retries=3)
MaxRetries == 3

\* the tasks of beat_schedule
BeatTasks ==
    {"autonomous_daily_check", "autonomous_urgent_check",
     "agent_learning_update"}

\* a task that beat has not sent yet
IdleRun ==
    [state |-> "IDLE", retries |-> 0, executions |-> 0,
     countdowns |-> <<>>, results |-> <<>>]

\* the task function returned: state SUCCESS with the returned dict
Succeeded(run, result) ==
    [run EXCEPT !.state = "SUCCESS",
                !.executions = @ + 1,
                !.results = Append(@, result)]

\* a retry that is granted once more than max_retries allows
TaskRetry_OneMore(run, countdown) ==
    IF run.retries > MaxRetries
    THEN [run EXCEPT !.state = "FAILURE", !.executions = @ + 1]
    ELSE [run EXCEPT !.state = "RETRY",
                     !.retries = @ + 1,
                     !.executions = @ + 1,
                     !.countdowns = Append(@, countdown)]

\* raise self.retry(exc=exc, countdown=countdown): the task is sent again
\* with retries + 1 after the countdown, unless that exceeds max_retries;
\* then exc is raised and the task ends in state FAILURE
TaskRetry(run, countdown) ==
    IF run.retries + 1 > MaxRetries
    THEN [run EXCEPT !.state = "FAILURE", !.executions = @ + 1]
    ELSE [run EXCEPT !.state = "RETRY",
                     !.retries = @ + 1,
                     !.executions = @ + 1,
                     !.countdowns = Append(@, countdown)]

\* a countdown that grows by a minute with each retry
RetryCountdown_Linear(retries) == 60 * (retries + 1)

\* countdown=60 * (2 ** self.request.retries)
RetryCountdown(retries) == 60 * (2 ^ retries)

\* autonomous_daily_check: the body returns, or an exception reaches the
\* except clause, which retries
DailyCheckTask(run, raised) ==
    IF raised
    THEN TaskRetry(run, RetryCountdown(run.retries))
    ELSE Succeeded(run, [status |-> "completed"])

\* an urgent check whose except clause retries like the daily one
UrgentCheckTask_Retrying(run, raised) ==
    IF raised
    THEN TaskRetry(run, RetryCountdown(run.retries))
    ELSE Succeeded(run, [status |-> "completed"])

\* autonomous_urgent_check: the except clause returns a failed result
UrgentCheckTask(run, raised) ==
    IF raised
    THEN Succeeded(run, [status |-> "failed"])
    ELSE Succeeded(run, [status |-> "completed"])

\* agent_learning_update: the except clause returns a failed result
LearningUpdateTask(run, raised) ==
    IF raised
    THEN Succeeded(run, [status |-> "failed"])
    ELSE Succeeded(run, [status |-> "completed"])

\* send_maintenance_reminder(user_id, car_id, message, service_type) called
\* with the positional arguments of the message: four are required, and a
\* call that does not bind raises TypeError before the body is entered
send_maintenance_reminder(args) ==
    IF Len(args) # 4
    THEN Raised
    ELSE send_push_notification(args[1], args[3])

\* the message schedule_notification hands to apply_async:
\* args=[user_id, message], eta=send_time
ReminderMessage(user_id, message, send_time) ==
    [args |-> <<user_id, message>>, eta |-> send_time,
     user_id |-> user_id, message |-> message,
     state |-> "PENDING", pushed |-> <<>>]

\* beat sends a task of its schedule
BeatTrigger ==
    /\ \E name \in BeatTasks :
         /\ tasks.beat[name].state = "IDLE"
         /\ tasks' = [tasks EXCEPT !.beat[name].state = "PENDING"]
    /\ UNCHANGED <<now, last_call, prev_call, analysis, fn_call, store, daily>>

\* a worker executes autonomous_daily_check; the agent cannot be constructed
\* or its check raises, or it completes
RunDailyCheck ==
    /\ tasks.beat["autonomous_daily_check"].state \in {"PENDING", "RETRY"}
    /\ \E raised \in BOOLEAN :
         tasks' = [tasks EXCEPT !.beat["autonomous_daily_check"] =
                                  DailyCheckTask(@, raised)]
    /\ UNCHANGED <<now, last_call, prev_call, analysis, fn_call, store, daily>>

\* a worker executes autonomous_urgent_check
RunUrgentCheck ==
    /\ tasks.beat["autonomous_urgent_check"].state \in {"PENDING", "RETRY"}
    /\ \E raised \in BOOLEAN :
         tasks' = [tasks EXCEPT !.beat["autonomous_urgent_check"] =
                                  UrgentCheckTask(@, raised)]
    /\ UNCHANGED <<now, last_call, prev_call, analysis, fn_call, store, daily>>

\* a worker executes agent_learning_update
RunLearningUpdate ==
    /\ tasks.beat["agent_learning_update"].state \in {"PENDING", "RETRY"}
    /\ \E raised \in BOOLEAN :
         tasks' = [tasks EXCEPT !.beat["agent_learning_update"] =
                                  LearningUpdateTask(@, raised)]
    /\ UNCHANGED <<now, last_call, prev_call, analysis, fn_call, store, daily>>

\* schedule_notification(user_id, message, send_time) is called, for a day
\* ahead; when apply_async accepts the message it is queued
ScheduleReminder ==
    /\ tasks.reminders = <<>>
    /\ \E user_id \in UserIds, queue \in ChannelOutcomes :
         LET send_time == now + HoursPerDay
             call == schedule_notification(user_id, "message", send_time, queue)
         IN  tasks' =
               IF call.raised
               THEN [tasks EXCEPT !.schedule_errors = @ + 1]
               ELSE [tasks EXCEPT !.reminders =
                       <<ReminderMessage(user_id, "message", send_time)>>]
    /\ tasks.schedule_errors = 0
    /\ UNCHANGED <<now, last_call, prev_call, analysis, fn_call, store, daily>>

\* a worker executes a queued send_maintenance_reminder once its eta has come
RunReminder ==
    /\ tasks.reminders # <<>>
    /\ tasks.reminders[1].state = "PENDING"
    /\ tasks.reminders[1].eta <= now
    /\ LET message == tasks.reminders[1]
           call == send_maintenance_reminder(message.args)
       IN  tasks' =
             IF call.raised
             THEN [tasks EXCEPT !.reminders[1].state = "FAILURE"]
             ELSE [tasks EXCEPT !.reminders[1].state = "SUCCESS",
                                !.reminders[1].pushed =
                                  <<[user_id |-> message.args[1],
                                     message |-> message.args[3],
                                     at |-> now]>>]
    /\ UNCHANGED <<now, last_call, prev_call, analysis, fn_call, store, daily>>

\* the wall clock advances while the tasks wait
TaskTick ==
    /\ \E t \in PairNowPoints : t > now /\ now' = t
    /\ UNCHANGED <<last_call, prev_call, analysis, fn_call, store, daily, tasks>>

InitTasks ==
    /\ now \in PairNowPoints
    /\ last_call = None
    /\ prev_call = None
    /\ analysis = None
    /\ fn_call = None
    /\ store = None
    /\ daily = None
    /\ tasks = [beat |-> [name \in BeatTasks |-> IdleRun],
                reminders |-> <<>>,
                schedule_errors |-> 0]

NextTasks ==
    \/ BeatTrigger
    \/ RunDailyCheck
    \/ RunUrgentCheck
    \/ RunLearningUpdate
    \/ ScheduleReminder
    \/ RunReminder
    \/ TaskTick

SpecTasks == InitTasks /\ [][NextTasks]_vars

----------------------------------------------------------------------------
(* Claims about the Celery tasks, checked under SpecTasks *)

DailyRun == tasks.beat["autonomous_daily_check"]

\* C21: a failed execution of the daily check task is retried, at most 3
\* times; when the execution after the third retry fails the task is in
\* state FAILURE and is not sent again, so that one trigger leads to at most
\* 4 executions.
C21_DailyRetriesBounded ==
    /\ [](/\ DailyRun.retries <= 3
          /\ DailyRun.executions <= 4
          /\ DailyRun.state = "RETRY" =>
               DailyRun.executions = DailyRun.retries /\ DailyRun.results = <<>>
          /\ DailyRun.state = "FAILURE" =>
               DailyRun.executions = 4 /\ DailyRun.retries = 3
          /\ DailyRun.state = "SUCCESS" =>
               DailyRun.executions = DailyRun.retries + 1)
    /\ [][DailyRun.state \in {"FAILURE", "SUCCESS"} => DailyRun' = DailyRun]_vars

\* C21 witness: the fourth execution failed after three retries and the task
\* is in state FAILURE
C21_Witness ==
    /\ tasks # None
    /\ DailyRun.state = "FAILURE"
    /\ DailyRun.executions = 4
    /\ DailyRun.retries = 3

\* C22: the delay before the retry that follows k earlier retries is
\* 60 * 2^k seconds: the delays of the daily check task are 60, 120, 240 in
\* this order, each the double of the one before.
C22_ExponentialBackoff ==
    /\ Len(DailyRun.countdowns) = DailyRun.retries
    /\ \A k \in 1..Len(DailyRun.countdowns) :
         /\ DailyRun.countdowns[k] = <<60, 120, 240>>[k]
         /\ k > 1 => DailyRun.countdowns[k] = 2 * DailyRun.countdowns[k - 1]

\* C22 witness: three retries have been made, after 60, 120 and 240 seconds
C22_Witness ==
    /\ tasks # None
    /\ DailyRun.retries = 3
    /\ DailyRun.countdowns = <<60, 120, 240>>

\* C23: the hourly urgent check and the weekly learning task are never
\* retried: one trigger leads to at most one execution, which ends in a
\* returned result with status completed or, after an internal failure,
\* failed, and the task is not sent again.
C23_NoRetry ==
    \A name \in {"autonomous_urgent_check", "agent_learning_update"} :
      LET run == tasks.beat[name]
      IN  /\ run.state \in {"IDLE", "PENDING", "SUCCESS"}
          /\ run.retries = 0
          /\ run.countdowns = <<>>
          /\ run.executions = Len(run.results)
          /\ run.executions = (IF run.state = "SUCCESS" THEN 1 ELSE 0)
          /\ \A i \in 1..Len(run.results) :
               run.results[i].status \in {"completed", "failed"}

\* C23 witness: the urgent check failed internally and returned failed, the
\* learning update completed, each after one execution
C23_Witness ==
    /\ tasks # None
    /\ tasks.beat["autonomous_urgent_check"].results = <<[status |-> "failed"]>>
    /\ tasks.beat["autonomous_urgent_check"].executions = 1
    /\ tasks.beat["agent_learning_update"].results = <<[status |-> "completed"]>>
    /\ tasks.beat["agent_learning_update"].executions = 1

\* C28: the message queued by schedule_notification(user_id, message,
\* send_time) carries the four arguments send_maintenance_reminder requires,
\* and once a worker has executed it, which is not before send_time, the
\* user has been sent a push notification with that message.
C28_ReminderDelivered ==
    \A i \in 1..Len(tasks.reminders) :
      LET reminder == tasks.reminders[i]
      IN  /\ Len(reminder.args) = 4
          /\ reminder.state # "PENDING" =>
               /\ reminder.state = "SUCCESS"
               /\ Len(reminder.pushed) = 1
               /\ reminder.pushed[1].user_id = reminder.user_id
               /\ reminder.pushed[1].message = reminder.message
               /\ reminder.pushed[1].at >= reminder.eta

\* what does hold of a scheduled reminder: it is not executed before
\* send_time, its execution fails, and no push is ever sent for it
ReminderNeverDelivered ==
    \A i \in 1..Len(tasks.reminders) :
      LET reminder == tasks.reminders[i]
      IN  /\ reminder.pushed = <<>>
          /\ reminder.state \in {"PENDING", "FAILURE"}
          /\ reminder.state = "FAILURE" => reminder.eta <= now

----------------------------------------------------------------------------
(* Further claims about the daily check, checked under SpecDaily *)

\* the place of a step in the processing of one vehicle; the actions of the
\* plan, which dispatch the notifications, come last
StepRank(step) ==
    CASE step = "fetch_history" -> 1
      [] step = "evaluate" -> 2
      [] step = "generate" -> 3
      [] step = "decide" -> 4
      [] OTHER -> 5

\* C24: for each vehicle the steps are taken in the order history fetched,
\* status evaluated, recommendation generated, action decided, actions
\* executed (notifications dispatched): no step of a vehicle is logged
\* before an earlier one, each of the first four is taken once, and a step
\* is taken only after the one before it was taken for that vehicle.
C24_StepsInOrder ==
    \A j \in 1..Len(daily.log) :
      LET entry == daily.log[j]
          Earlier(rank) ==
            {i \in 1..(j - 1) : /\ daily.log[i].car = entry.car
                                /\ StepRank(daily.log[i].step) = rank}
      IN  /\ \A i \in 1..(j - 1) :
               daily.log[i].car = entry.car =>
                 /\ StepRank(daily.log[i].step) <= StepRank(entry.step)
                 /\ StepRank(entry.step) < 5 =>
                      StepRank(daily.log[i].step) < StepRank(entry.step)
          /\ StepRank(entry.step) > 1 =>
               \A rank \in 1..(StepRank(entry.step) - 1) :
                 Cardinality(Earlier(rank)) = 1

\* C24 witness: car 1 went through all the steps and a notification was
\* dispatched for it last
C24_Witness ==
    /\ daily # None
    /\ Len(daily.log) >= 5
    /\ \A i \in 1..5 : daily.log[i].car = 1
    /\ [i \in 1..5 |-> daily.log[i].step] =
         <<"fetch_history", "evaluate", "generate", "decide", "notification">>

\* the action plan is the fallback of an unparseable decision
PlanIsFallback == "error" \in DOMAIN daily.action_plan

\* C29: when the decision for a vehicle was unparseable, executing the
\* fallback plan dispatches nothing and raises nothing: the step leaves the
\* log and the errors as they are and returns to the loop over the cars,
\* which goes on with the user's next vehicle.
C29_FallbackPlanDoesNothing ==
    /\ []((PlanIsFallback /\ daily.pc = "cars") =>
            /\ daily.log[Len(daily.log)] =
                 [user |-> CurrentUser.id, car |-> CurrentCar, step |-> "decide"]
            /\ \A k \in 1..Len(daily.errors) : daily.errors[k] # CurrentUser.id)
    /\ [][(PlanIsFallback /\ daily.pc = "execute") =>
            /\ daily'.pc = "cars"
            /\ daily'.log = daily.log
            /\ daily'.errors = daily.errors]_vars
    /\ [][(PlanIsFallback /\ daily.pc = "cars"
             /\ daily.ci < Len(CurrentUser.cars)) =>
            /\ daily'.pc = "build_context"
            /\ daily'.ci = daily.ci + 1
            /\ daily'.ui = daily.ui]_vars

\* C29 witness: the decision for car 1 was prose; nothing was dispatched for
\* it and the history of car 2 of the same user has been fetched
C29_Witness ==
    /\ daily # None
    /\ PlanIsFallback
    /\ daily.action_plan.raw = Prose
    /\ daily.pc = "generate"
    /\ daily.errors = <<>>
    /\ [i \in 1..Len(daily.log) |-> <<daily.log[i].car, daily.log[i].step>>] =
         << <<1, "fetch_history">>, <<1, "evaluate">>, <<1, "generate">>,
            <<1, "decide">>, <<2, "fetch_history">>, <<2, "evaluate">> >>

\* the types of the actions of the plan that is about to be executed
PlanActionTypes ==
    LET actions == Get(daily.action_plan, "actions", <<>>)
    IN  [i \in 1..Len(actions) |-> actions[i].type]

\* C25: executing a plan handles every action type of the decision
\* contract: for a plan of notification, schedule_followup and
\* price_research actions every action is executed, in list order, nothing
\* is raised, and the loop goes on with the next car.
C25_AllActionTypesHandled ==
    [][(/\ daily.pc = "execute"
        /\ \A i \in 1..Len(PlanActionTypes) :
             PlanActionTypes[i] \in
               {"notification", "schedule_followup", "price_research"}) =>
         /\ daily'.pc = "cars"
         /\ daily'.errors = daily.errors
         /\ daily'.log = Logged(PlanActionTypes)]_vars

\* what the executor does with a schedule_followup or price_research action:
\* the call of the undefined handler raises, the later actions of the plan
\* are not executed and the user's remaining cars are skipped
UndefinedHandlerRaises ==
    [][(/\ daily.pc = "execute"
        /\ Len(PlanActionTypes) > 0
        /\ PlanActionTypes[1] \in {"schedule_followup", "price_research"}) =>
         /\ daily'.pc = "users"
         /\ daily'.errors = Append(daily.errors, CurrentUser.id)
         /\ daily'.log = Logged(<<PlanActionTypes[1]>>)]_vars

----------------------------------------------------------------------------
(* The Celery task autonomous_daily_check around the agent's daily check *)

\* loop.run_until_complete(agent.autonomous_daily_check()) has ended: when
\* the check completed the task returns its result, and an exception that
\* left the check reaches the except clause of the task
FinishDailyCheck ==
    /\ daily.pc \in {"done", "raised"}
    /\ tasks.beat["autonomous_daily_check"].state \in {"PENDING", "RETRY"}
    /\ tasks' = [tasks EXCEPT !.beat["autonomous_daily_check"] =
                                DailyCheckTask(@, daily.pc = "raised")]
    /\ UNCHANGED <<now, last_call, prev_call, analysis, fn_call, store, daily>>

\* an action of the agent's check; the task waits
AgentStep == NextDaily /\ UNCHANGED tasks

\* a worker has started the task and the agent has fetched the active users
InitDailyTask ==
    /\ now \in PairNowPoints
    /\ last_call = None
    /\ prev_call = None
    /\ analysis = None
    /\ fn_call = None
    /\ store = None
    /\ \E active_users \in ActiveUserLists :
         daily = [active_users |-> active_users, pc |-> "users",
                  ui |-> 0, ci |-> 0, action_plan |-> None,
                  log |-> <<>>, errors |-> <<>>]
    /\ tasks = [beat |-> [name \in BeatTasks |->
                            IF name = "autonomous_daily_check"
                            THEN [IdleRun EXCEPT !.state = "PENDING"]
                            ELSE IdleRun],
                reminders |-> <<>>,
                schedule_errors |-> 0]

NextDailyTask ==
    \/ AgentStep
    \/ FinishDailyCheck

\* the event loop runs the one coroutine of the check until it is complete:
\* a step that can be taken is taken
SpecDailyTask ==
    InitDailyTask /\ [][NextDailyTask]_vars /\ WF_vars(NextDailyTask)

----------------------------------------------------------------------------
(* Claims about the daily task, checked under SpecDailyTask *)

\* the log entries that start the processing of a user: the history of the
\* user's first car is fetched
IsUserStart(entry) ==
    /\ entry.step = "fetch_history"
    /\ \E i \in 1..Len(daily.active_users) :
         /\ daily.active_users[i].id = entry.user
         /\ daily.active_users[i].cars[1] = entry.car

\* C26: the daily check attempts every active user once, in list order, and
\* completes, also when the processing of every user raises; the Celery
\* task then returns completed: it is never retried and never fails.
C26_CheckCompletesDespiteUserFailures ==
    /\ <>(DailyRun.state = "SUCCESS")
    /\ [](/\ daily.pc # "raised"
          /\ DailyRun.state \in {"PENDING", "SUCCESS"}
          /\ DailyRun.retries = 0
          /\ DailyRun.state = "SUCCESS" =>
               /\ daily.pc = "done"
               /\ DailyRun.results = <<[status |-> "completed"]>>
          /\ daily.pc = "done" =>
               LET starts == SelectSeq(daily.log, IsUserStart)
               IN  [i \in 1..Len(starts) |-> starts[i].user] =
                     [i \in 1..Len(daily.active_users) |->
                        daily.active_users[i].id])

\* C26 witness: the processing of both users raised, and the task returned
\* completed without a retry
C26_Witness ==
    /\ daily # None
    /\ tasks # None
    /\ Len(daily.active_users) = 2
    /\ daily.errors = <<1, 2>>
    /\ daily.pc = "done"
    /\ DailyRun.state = "SUCCESS"
    /\ DailyRun.executions = 1

----------------------------------------------------------------------------
(* The handlers of the action plan *)

\* the user and the car a handler is called for
HandlerUsers == {[id |-> id, phone |-> "+15550100"] : id \in UserIds}
HandlerCar == [id |-> 1, year |-> 2018, make |-> "Toyota", model |-> "Camry"]

\* the notification actions of a plan: every priority of the prompt, and
\* an action without one
NotificationActions ==
    {[type |-> "notification", message |-> "is due for an oil change",
      priority |-> priority] : priority \in {"high", "medium", "low"}}
    \cup {[type |-> "notification", message |-> "is due for an oil change"]}

\* a handler that sends the SMS whatever the priority
send_proactive_notification_SmsAlways(user, car, action, twilio) ==
    LET message == Get(action, "message", "")
        personalized_message ==
          "Hi! Your " \o ToString(car.year) \o " " \o car.make \o " "
            \o car.model \o " " \o message
        push == send_push_notification(user.id, personalized_message)
        sms == send_sms(user.phone, personalized_message, twilio)
    IN  << [op |-> "push", to |-> user.id, body |-> personalized_message,
            status |-> push.value.status],
           [op |-> "sms", to |-> user.phone, body |-> personalized_message,
            status |-> sms.value.status],
           [op |-> "log", to |-> user.id, body |-> "proactive_notification",
            status |-> "logged"] >>

\* _send_proactive_notification(user, car, action): what it sends and logs,
\* in order; twilio is what the SMS gateway does with a message
send_proactive_notification(user, car, action, twilio) ==
    LET message == Get(action, "message", "")
        priority == Get(action, "priority", "medium")
        personalized_message ==
          "Hi! Your " \o ToString(car.year) \o " " \o car.make \o " "
            \o car.model \o " " \o message
        push == send_push_notification(user.id, personalized_message)
        sms == send_sms(user.phone, personalized_message, twilio)
        pushed == [op |-> "push", to |-> user.id, body |-> personalized_message,
                   status |-> push.value.status]
        texted == [op |-> "sms", to |-> user.phone, body |-> personalized_message,
                   status |-> sms.value.status]
        logged == [op |-> "log", to |-> user.id, body |-> "proactive_notification",
                   status |-> "logged"]
    IN  IF priority = "high"
        THEN <<pushed, texted, logged>>
        ELSE <<pushed, logged>>

\* one call of _send_proactive_notification
CallSendProactiveNotification ==
    /\ NoCallYet
    /\ \E user \in HandlerUsers, action \in NotificationActions,
          twilio \in ChannelOutcomes :
         fn_call' =
           FnCall("_send_proactive_notification",
                  [user |-> user, action |-> action, twilio |-> twilio],
                  "returned",
                  send_proactive_notification(user, HandlerCar, action, twilio))
    /\ UNCHANGED <<now, last_call, prev_call, analysis, store, daily, tasks>>

\* the most mechanics one search finds
MaxMechanics == 4

\* the rating of a place Google has no rating for: place.get('rating') is None
Unrated == -1

\* a mechanic as find_nearby_mechanics builds it: the rating and the distance
\* in tenths (4.5 stars is 45, 1.2 miles is 12)
Mechanic(name, rating, distance) ==
    [name |-> name, rating |-> rating, distance |-> distance]

MechanicRatings == {Unrated, 40, 45}
MechanicDistances == {0, 12}

\* the lists a search can return: the i-th place found is "Shop i"
MechanicLists ==
    UNION {{[i \in 1..n |->
               Mechanic("Shop " \o ToString(i), attrs[i][1], attrs[i][2])] :
              attrs \in [1..n -> MechanicRatings \X MechanicDistances]} :
           n \in 0..MaxMechanics}

\* the research actions of a plan, with and without a service type
ResearchActions ==
    {[type |-> "research_mechanics", service_type |-> "oil_change"],
     [type |-> "research_mechanics"]}

\* the order of Python on the key tuples (rating, -distance)
TupleLess(a, b) ==
    \/ a[1] < b[1]
    \/ a[1] = b[1] /\ a[2] < b[2]

\* sorted(..., reverse=True) on <<key, item>> pairs: descending by key, equal
\* keys in input order
RECURSIVE SortedByKeyDesc(_, _)
SortedByKeyDesc(keyed, done) ==
    IF keyed = <<>>
    THEN [i \in 1..Len(done) |-> done[i][2]]
    ELSE LET x == Head(keyed)
             before == {i \in 1..Len(done) : TupleLess(done[i][1], x[1])}
             at == IF before = {} THEN Len(done) + 1
                   ELSE CHOOSE i \in before : \A j \in before : i <= j
         IN  SortedByKeyDesc(Tail(keyed),
                             SubSeq(done, 1, at - 1) \o <<x>>
                               \o SubSeq(done, at, Len(done)))

\* comparing the keys of a rated and an unrated mechanic compares a number
\* with None, which raises TypeError
MixedRatings(mechanics) ==
    \E i, j \in 1..Len(mechanics) :
        mechanics[i].rating = Unrated /\ mechanics[j].rating # Unrated

\* a ranking whose key prefers the farther of two equally rated mechanics
rank_mechanics_FarthestFirst(mechanics) ==
    IF MixedRatings(mechanics)
    THEN Raised
    ELSE Returned(SortedByKeyDesc(
           [i \in 1..Len(mechanics) |->
              <<<<mechanics[i].rating, mechanics[i].distance>>, mechanics[i]>>],
           <<>>))

\* _rank_mechanics(mechanics, service_type)
rank_mechanics(mechanics) ==
    IF MixedRatings(mechanics)
    THEN Raised
    ELSE Returned(SortedByKeyDesc(
           [i \in 1..Len(mechanics) |->
              <<<<mechanics[i].rating, 0 - mechanics[i].distance>>, mechanics[i]>>],
           <<>>))

\* a number of tenths as Python prints the float: 45 is "4.5"
Tenths(t) == ToString(t \div 10) \o "." \o ToString(t % 10)

\* the line of the i-th recommended mechanic; the star of the source is
\* written "*" here; None and 0.0 are falsy, so neither is printed
RecommendationLine(i, mechanic) ==
    ToString(i) \o ". " \o mechanic.name
      \o (IF mechanic.rating # Unrated /\ mechanic.rating # 0
          THEN " (" \o Tenths(mechanic.rating) \o "*)" ELSE "")
      \o (IF mechanic.distance # 0
          THEN " - " \o Tenths(mechanic.distance) \o " miles away" ELSE "")

RECURSIVE JoinLines(_, _)
JoinLines(mechanics, i) ==
    IF i > Len(mechanics) THEN ""
    ELSE RecommendationLine(i, mechanics[i])
           \o (IF i < Len(mechanics) THEN "\n" ELSE "")
           \o JoinLines(mechanics, i + 1)

\* _format_mechanic_recommendations(mechanics)
format_mechanic_recommendations(mechanics) ==
    IF mechanics = <<>>
    THEN "I couldn't find any mechanics in your area right now."
    ELSE JoinLines(mechanics, 1)

\* how many of the ranked mechanics are recommended: recommended_mechanics[:3]
RecommendedCount == 3

FirstOf(items, n) ==
    SubSeq(items, 1, IF Len(items) < n THEN Len(items) ELSE n)

\* _research_and_recommend_mechanics(user, car, action): found is what
\* find_nearby_mechanics does, a list of mechanics or an error of the Google
\* client; the result is the ranked list and the pushes sent
research_and_recommend_mechanics(user, action, found) ==
    LET service_type == Get(action, "service_type", "general")
        ranked == rank_mechanics(found.value)
        recommendation_message ==
          format_mechanic_recommendations(FirstOf(ranked.value, RecommendedCount))
        body == "I found some great options for your " \o service_type
                  \o ":\n" \o recommendation_message
        push == send_push_notification(user.id, body)
    IN  IF found.raised \/ ranked.raised
        THEN Raised
        ELSE Returned([ranked |-> ranked.value,
                       pushes |-> << [op |-> "push", to |-> user.id,
                                      body |-> body,
                                      status |-> push.value.status] >>])

\* one call of _research_and_recommend_mechanics
CallResearchMechanics ==
    /\ NoCallYet
    /\ \E user \in HandlerUsers, action \in ResearchActions,
          maps \in ChannelOutcomes, mechanics \in MechanicLists :
         LET found == IF maps = "accepted" THEN Returned(mechanics) ELSE Raised
             call == research_and_recommend_mechanics(user, action, found)
         IN  fn_call' =
               FnCall("_research_and_recommend_mechanics",
                      [user |-> user, action |-> action, found |-> found],
                      IF call.raised THEN "raised" ELSE "returned",
                      call.value)
    /\ UNCHANGED <<now, last_call, prev_call, analysis, store, daily, tasks>>

NextHandlers ==
    \/ CallSendProactiveNotification
    \/ CallResearchMechanics

SpecHandlers == InitCalls /\ [][NextHandlers]_vars

----------------------------------------------------------------------------
(* Claims about the handlers, checked under SpecHandlers *)

EffectsOf(effects, op) == {i \in 1..Len(effects) : effects[i].op = op}

\* C27: a notification action makes exactly one push notification to the
\* user; an SMS to the user's phone is sent if and only if the priority of the
\* action is "high", and then after the push; the action is logged last, also
\* when the SMS failed.
C27_OnePushSmsIffHigh ==
    (fn_call # None /\ fn_call.fn = "_send_proactive_notification") =>
      LET effects == fn_call.result
          user == fn_call.args.user
          high == Get(fn_call.args.action, "priority", "medium") = "high"
          pushes == EffectsOf(effects, "push")
          texts == EffectsOf(effects, "sms")
      IN  /\ fn_call.outcome = "returned"
          /\ Cardinality(pushes) = 1
          /\ \A i \in pushes : effects[i].to = user.id
          /\ (texts # {}) <=> high
          /\ Cardinality(texts) <= 1
          /\ \A i \in texts :
               /\ effects[i].to = user.phone
               /\ \A j \in pushes : j < i
               /\ effects[i].status =
                    (IF fn_call.args.twilio = "accepted" THEN "sent" ELSE "failed")
          /\ effects[Len(effects)].op = "log"
          /\ Cardinality(EffectsOf(effects, "log")) = 1

\* a high priority action whose SMS failed and which was logged all the same
C27_Witness ==
    /\ fn_call # None
    /\ fn_call.fn = "_send_proactive_notification"
    /\ Get(fn_call.args.action, "priority", "medium") = "high"
    /\ fn_call.args.twilio = "error"
    /\ Len(fn_call.result) = 3
    /\ fn_call.result[2].op = "sms"
    /\ fn_call.result[2].status = "failed"
    /\ fn_call.result[3].op = "log"

\* one list is the other in another order
IsPermutation(a, b) ==
    /\ Len(a) = Len(b)
    /\ \E p \in [1..Len(a) -> 1..Len(a)] :
         /\ \A i, j \in 1..Len(a) : i # j => p[i] # p[j]
         /\ \A i \in 1..Len(a) : a[i] = b[p[i]]

NoneFoundPushed ==
    /\ fn_call # None
    /\ fn_call.fn = "_research_and_recommend_mechanics"
    /\ fn_call.outcome = "returned"
    /\ fn_call.args.found.value = <<>>
    /\ fn_call.result.pushes[1].body =
         "I found some great options for your general:\nI couldn't find any mechanics in your area right now."

====
